---- MODULE Spec2Model ----
(***************************************************************************)
(* Model of digest.py: one run of main().  The run queries PubMed          *)
(* (ESearch, then ESummary), queries ClinicalTrials.gov, merges and        *)
(* de-duplicates the records by id, asks the summarizer for a report and   *)
(* mails it.                                                               *)
(*                                                                         *)
(* A Python str is a sequence of tokens; every token stands for a          *)
(* non-empty piece of text, so the empty str is << >>.  A JSON value that  *)
(* may be missing or null is a record [k, s]: k is "missing", "null" or    *)
(* "str", s the text when k = "str".                                       *)
(*                                                                         *)
(* Instants are counted in ticks of 12 hours since 2024-01-01T00:00Z.      *)
(***************************************************************************)
EXTENDS Integers, Sequences, FiniteSets, TLC

\* ------------------------------------------------------------------ bounds
MaxIds == 2
MaxStudies == 2

\* ------------------------------------------------------- program constants
days_back == 7
TicksPerDay == 2

\* ------------------------------------------------------------ str helpers
Missing == [k |-> "missing", s |-> << >>]
JNull == [k |-> "null", s |-> << >>]
Str(s) == [k |-> "str", s |-> s]

Range(f) == {f[i] : i \in DOMAIN f}

\* seq.index-free helpers on sequences
Front(s) == SubSeq(s, 1, Len(s) - 1)
Last(s) == s[Len(s)]

\* str.strip(): drop leading and trailing whitespace
RECURSIVE LStrip(_)
LStrip(s) == IF s # << >> /\ Head(s) = " " THEN LStrip(Tail(s)) ELSE s
RECURSIVE RStripWs(_)
RStripWs(s) == IF s # << >> /\ Last(s) = " " THEN RStripWs(Front(s)) ELSE s
Strip(s) == RStripWs(LStrip(s))

\* str.rstrip("."): drop every trailing "."
RECURSIVE RStripDot(_)
RStripDot(s) == IF s # << >> /\ Last(s) = "." THEN RStripDot(Front(s)) ELSE s

\* dict.get(key, default): the default only replaces a missing key
Get(v, default) == IF v.k = "missing" THEN default ELSE v

\* (dict.get(key) or ""): missing, null and "" all become ""
GetOrEmpty(v) == IF v.k = "str" THEN v.s ELSE << >>

\* Response.raise_for_status(): raises HTTPError for 4xx and 5xx
RaisesForStatus(status) == status >= 400 /\ status < 600

\* ------------------------------------------------ upstream input domains
StatusCodes == {200, 400, 500}
Pids == {"1", "2"}

SeqsUpTo(S, n) == UNION {[1..m -> S] : m \in 0..n}

\* ESummary "result" entry of one pmid
RecMissing == [has |-> FALSE, title |-> Missing, fulljournalname |-> Missing, pubdate |-> Missing]
RecWith(t) == [has |-> TRUE, title |-> t, fulljournalname |-> Str(<<"Blood">>), pubdate |-> Str(<<"2024 Jan">>)]
PmTitles == {Missing, JNull, Str(<< >>), Str(<<"a">>), Str(<<" ", "a", ".", " ">>), Str(<<".", ".">>), Str(<<" ">>)}
PmRecs == {RecMissing} \cup {RecWith(t) : t \in PmTitles}

\* --------------------------------------------------- ISO-8601 date strings
\* A date string is <<date>>, <<date, time>> or <<date, time, offset>>.
DayOf == [d \in {"2024-01-03", "2024-01-09"} |-> IF d = "2024-01-03" THEN 2 ELSE 8]
TickOf == [t \in {"T00:00:00", "T12:00:00"} |-> IF t = "T00:00:00" THEN 0 ELSE 1]
OffsetOf == [z \in {"+00:00", "+12:00"} |-> IF z = "+00:00" THEN 0 ELSE 1]

\* datetime.fromisoformat(s): ok = FALSE stands for ValueError.  wall is the
\* wall-clock reading in ticks, aware/offset the tzinfo parsed from the text.
ParseError == [ok |-> FALSE, wall |-> 0, aware |-> FALSE, offset |-> 0]
fromisoformat(s) ==
    IF Len(s) \notin 1..3 \/ s[1] \notin DOMAIN DayOf THEN ParseError
    ELSE IF Len(s) = 1
      THEN [ok |-> TRUE, wall |-> DayOf[s[1]] * TicksPerDay, aware |-> FALSE, offset |-> 0]
    ELSE IF s[2] \notin DOMAIN TickOf THEN ParseError
    ELSE IF Len(s) = 2
      THEN [ok |-> TRUE, wall |-> DayOf[s[1]] * TicksPerDay + TickOf[s[2]],
            aware |-> FALSE, offset |-> 0]
    ELSE IF s[3] \notin DOMAIN OffsetOf THEN ParseError
    ELSE [ok |-> TRUE, wall |-> DayOf[s[1]] * TicksPerDay + TickOf[s[2]],
          aware |-> TRUE, offset |-> OffsetOf[s[3]]]

\* datetime.replace(tzinfo=TZ_UTC): the wall-clock fields stay, tzinfo is set
replace_tzinfo_utc(dt) == [dt EXCEPT !.aware = TRUE, !.offset = 0]

\* the instant an aware datetime denotes, in ticks UTC
Instant(dt) == dt.wall - dt.offset

\* datetime.astimezone(UTC) of the parsed text, a naive text read as UTC
UtcNormalized(dt) == dt.wall - (IF dt.aware THEN dt.offset ELSE 0)

\* variant of Keep: the except branch drops the study
Keep_FailClosed(last_update, cutoff) ==
    IF last_update = << >> THEN TRUE
    ELSE LET p == fromisoformat(last_update)
         IN IF p.ok THEN Instant(replace_tzinfo_utc(p)) >= cutoff ELSE FALSE

\* lines 104-110: the keep flag of one study
Keep(last_update, cutoff) ==
    IF last_update = << >> THEN TRUE
    ELSE LET p == fromisoformat(last_update)
         IN IF p.ok THEN Instant(replace_tzinfo_utc(p)) >= cutoff ELSE TRUE

DateTexts == { << >>, <<"not-a-date">>, <<"2024-01-03">>,
               <<"2024-01-03", "T12:00:00">>,
               <<"2024-01-03", "T12:00:00", "+12:00">> }

\* datetime.now(TZ_UTC): 2024-01-10 at 00:00 or at 12:00
NowSet == {9 * TicksPerDay, 9 * TicksPerDay + 1}

\* ----------------------------------------------- trial-registry responses
\* One element of js["studies"].  prot, ident and status say whether
\* protocolSection, identificationModule and statusModule are "missing",
\* "null" or an "obj"; the four leaves are the fields the adapter reads.
Study(prot, ident, status, nct, title, date, overall) ==
    [prot |-> prot, ident |-> ident, status |-> status, nctId |-> nct,
     briefTitle |-> title, lastUpdatePostDate |-> date, overallStatus |-> overall]

NCT1 == Str(<<"NCT01">>)
TitleT == Str(<<"T">>)
Recruiting == Str(<<"RECRUITING">>)
Recent == Str(<<"2024-01-09">>)

StudySet ==
    {Study("missing", "missing", "missing", Missing, Missing, Missing, Missing),
     Study("obj", "null", "null", Missing, Missing, Missing, Missing),
     Study("obj", "obj", "missing", NCT1, TitleT, Missing, Missing),
     Study("obj", "obj", "obj", Missing, TitleT, Recent, Recruiting),
     Study("obj", "obj", "obj", JNull, Missing, Recent, Recruiting),
     Study("obj", "obj", "obj", NCT1, Missing, Recent, Recruiting)}
    \cup {Study("obj", "obj", "obj", NCT1, TitleT, d, Recruiting) :
        d \in {Missing} \cup {Str(x) : x \in DateTexts}}

\* lines 93-95: (s.get(...) or {}) makes a missing or null section an empty dict
IdentField(s, f) == IF s.prot = "obj" /\ s.ident = "obj" THEN s[f] ELSE Missing
StatusField(s, f) == IF s.prot = "obj" /\ s.status = "obj" THEN s[f] ELSE Missing

\* lines 97-101: the local variables of one loop iteration
nct_of(s) == GetOrEmpty(IdentField(s, "nctId"))
title_of(s) ==
    LET t == GetOrEmpty(IdentField(s, "briefTitle"))
    IN IF t # << >> THEN t ELSE <<"Clinical trial update">>
last_update_of(s) == GetOrEmpty(StatusField(s, "lastUpdatePostDate"))
overall_of(s) == GetOrEmpty(StatusField(s, "overallStatus"))
url_of(s) ==
    IF nct_of(s) # << >> THEN <<"https://clinicaltrials.gov/study/">> \o nct_of(s)
    ELSE <<"https://clinicaltrials.gov/">>

\* hash(title): equal titles hash alike within one process
TokCode(tok) == CASE tok = "T" -> 84 [] tok = " " -> 32 [] OTHER -> 67
RECURSIVE py_hash(_)
py_hash(s) == IF s = << >> THEN 7 ELSE (py_hash(Front(s)) * 31 + TokCode(Last(s))) % 65521

\* lines 114-121: the record appended for a kept study
CtRecord(s) ==
    [source |-> "ClinicalTrials.gov",
     id |-> IF nct_of(s) # << >> THEN <<"NCT:">> \o nct_of(s)
            ELSE <<"CT:", ToString(py_hash(title_of(s)))>>,
     title |-> title_of(s),
     meta |-> overall_of(s) \o <<" | last update: ">> \o last_update_of(s),
     url |-> url_of(s),
     snippet |-> << >>]

\* lines 92-124: the loop over the studies
RECURSIVE CtItems(_, _)
CtItems(studies, cutoff) ==
    IF studies = << >> THEN << >>
    ELSE LET s == Head(studies)
             rest == CtItems(Tail(studies), cutoff)
         IN IF Keep(last_update_of(s), cutoff) THEN <<CtRecord(s)>> \o rest ELSE rest

\* ------------------------------------------------------ literature records
\* line 53: rec.get("title", "").strip().rstrip(".")
pm_title(rec) == RStripDot(Strip(GetOrEmpty(Get(rec.title, Str(<< >>)))))

\* line 53 raises AttributeError when the title is JSON null
TitleIsNone(rec) == Get(rec.title, Str(<< >>)).k = "null"

\* variant of PubmedRecord: the title is used as it comes, without placeholder
PubmedRecord_RawTitle(pid, rec) ==
    [source |-> "PubMed",
     id |-> <<"PMID:", pid>>,
     title |-> pm_title(rec),
     meta |-> GetOrEmpty(rec.fulljournalname) \o <<" | ">> \o GetOrEmpty(rec.pubdate),
     url |-> <<"https://pubmed.ncbi.nlm.nih.gov/", pid, "/">>,
     snippet |-> << >>]

\* lines 52-66: the record appended for one pmid
PubmedRecord(pid, rec) ==
    [source |-> "PubMed",
     id |-> <<"PMID:", pid>>,
     title |-> IF pm_title(rec) # << >> THEN pm_title(rec) ELSE <<"PubMed record ", pid>>,
     meta |-> GetOrEmpty(rec.fulljournalname) \o <<" | ">> \o GetOrEmpty(rec.pubdate),
     url |-> <<"https://pubmed.ncbi.nlm.nih.gov/", pid, "/">>,
     snippet |-> << >>]

\* lines 50-67: the loop over the pmids
PubmedItems(ids, data) == [i \in 1..Len(ids) |-> PubmedRecord(ids[i], data[ids[i]])]

\* ------------------------------------------------------------ deduplicator
\* A dict is the sequence of its (key, value) pairs in insertion order.
HasKey(d, key) == \E i \in 1..Len(d) : d[i].key = key

\* variant of SetItem: dict.setdefault, the first value of a key stays
SetItem_FirstWins(d, key, val) ==
    IF HasKey(d, key) THEN d ELSE Append(d, [key |-> key, val |-> val])

\* d[key] = val: a new key goes last, a known key keeps its place
SetItem(d, key, val) ==
    IF HasKey(d, key)
    THEN [i \in 1..Len(d) |-> IF d[i].key = key THEN [key |-> key, val |-> val] ELSE d[i]]
    ELSE Append(d, [key |-> key, val |-> val])

\* lines 195-197
RECURSIVE BuildUniq(_, _)
BuildUniq(d, its) ==
    IF its = << >> THEN d ELSE BuildUniq(SetItem(d, Head(its).id, Head(its)), Tail(its))

\* variant of Dedupe: the values are listed newest key first
Dedupe_NewestFirst(its) ==
    LET u == BuildUniq(<< >>, its) IN [i \in 1..Len(u) |-> u[Len(u) + 1 - i].val]

\* lines 195-198: list(uniq.values())
Dedupe(its) == LET u == BuildUniq(<< >>, its) IN [i \in 1..Len(u) |-> u[i].val]

\* -------------------------------------------------------------------- state
VARIABLES
    pc,        \* the statement of main() that runs next; "done" or "failed" at exit
    items,     \* main's items
    merged,    \* the list items was bound to before line 198, until it is collected
    pmids,     \* the idlist of the ESearch response
    data,      \* pubmed_search: the ESummary result, per pmid, while it is in scope
    studies,   \* clinicaltrials_search: js["studies"]
    cutoff,    \* clinicaltrials_search: now - days_back
    ret,       \* the value the last adapter call returned
    report,    \* main's report
    calls,     \* the external requests issued so far, with their outcome
    returned,  \* the functions main called that returned normally
    err,       \* the exception that left main(), and the call that raised it
    printed    \* the confirmation line has been printed

vars == <<pc, items, merged, pmids, data, studies, cutoff, ret, report, calls,
          returned, err, printed>>

NoErr == [in |-> "", exc |-> ""]
NoData == [p \in Pids |-> RecMissing]

\* status 0: no response (connection error or timeout)
Call(to, status) == [to |-> to, status |-> status]

Init ==
    /\ pc = "pubmed_search"
    /\ items = << >>
    /\ merged = << >>
    /\ pmids = << >>
    /\ data = NoData
    /\ studies = << >>
    /\ cutoff = 0
    /\ ret = << >>
    /\ report = << >>
    /\ calls = << >>
    /\ returned = {}
    /\ err = NoErr
    /\ printed = FALSE

\* an exception leaves the called function and main(): nothing catches it
Raise(fn, exc) ==
    /\ pc' = "failed"
    /\ err' = [in |-> fn, exc |-> exc]

\* the exception a request with this outcome raises; "" if none
RequestError(status, jsonOk) ==
    IF status = 0 THEN "ConnectionError"
    ELSE IF RaisesForStatus(status) THEN "HTTPError"
    ELSE IF ~jsonOk THEN "JSONDecodeError"
    ELSE ""

\* ---------------------------------------------------------- pubmed_search
\* variant of PubmedEsearchFails: the failed request is issued a second time
PubmedEsearchFails_Retry ==
    /\ pc = "pubmed_search"
    /\ \E status \in StatusCodes \cup {0}, jsonOk \in BOOLEAN :
        /\ RequestError(status, jsonOk) # ""
        /\ calls' = calls \o <<Call("esearch", status), Call("esearch", status)>>
        /\ Raise("pubmed_search", RequestError(status, jsonOk))
    /\ UNCHANGED <<items, merged, pmids, data, studies, cutoff, ret, report,
                   returned, printed>>

\* lines 37-39: the ESearch request fails
PubmedEsearchFails ==
    /\ pc = "pubmed_search"
    /\ \E status \in StatusCodes \cup {0}, jsonOk \in BOOLEAN :
        /\ RequestError(status, jsonOk) # ""
        /\ calls' = Append(calls, Call("esearch", status))
        /\ Raise("pubmed_search", RequestError(status, jsonOk))
    /\ UNCHANGED <<items, merged, pmids, data, studies, cutoff, ret, report,
                   returned, printed>>

\* variant of PubmedNoIds: the empty idlist is sent on to ESummary
PubmedNoIds_Summarizes ==
    /\ pc = "pubmed_search"
    /\ calls' = calls \o <<Call("esearch", 200), Call("esummary", 200)>>
    /\ pmids' = << >>
    /\ ret' = << >>
    /\ items' = items \o << >>
    /\ returned' = returned \cup {"pubmed_search"}
    /\ pc' = "clinicaltrials_search"
    /\ UNCHANGED <<merged, data, studies, cutoff, report, err, printed>>

\* lines 37-41: ESearch finds no pmid
PubmedNoIds ==
    /\ pc = "pubmed_search"
    /\ calls' = Append(calls, Call("esearch", 200))
    /\ pmids' = << >>
    /\ ret' = << >>
    /\ items' = items \o << >>
    /\ returned' = returned \cup {"pubmed_search"}
    /\ pc' = "clinicaltrials_search"
    /\ UNCHANGED <<merged, data, studies, cutoff, report, err, printed>>

\* lines 37-49: ESearch finds pmids, the ESummary request fails
PubmedEsummaryFails ==
    /\ pc = "pubmed_search"
    /\ \E idlist \in SeqsUpTo(Pids, MaxIds) \ {<< >>},
          status \in StatusCodes \cup {0}, jsonOk \in BOOLEAN :
        /\ RequestError(status, jsonOk) # ""
        /\ pmids' = idlist
        /\ calls' = calls \o <<Call("esearch", 200), Call("esummary", status)>>
        /\ Raise("pubmed_search", RequestError(status, jsonOk))
    /\ UNCHANGED <<items, merged, data, studies, cutoff, ret, report, returned, printed>>

\* lines 37-67: both requests succeed; a null title raises at line 53
PubmedSummarized ==
    /\ pc = "pubmed_search"
    /\ \E idlist \in SeqsUpTo(Pids, MaxIds) \ {<< >>}, result \in [Pids -> PmRecs] :
        /\ \A p \in Pids \ Range(idlist) : result[p] = RecMissing
        /\ pmids' = idlist
        /\ data' = result
        /\ calls' = calls \o <<Call("esearch", 200), Call("esummary", 200)>>
        /\ IF \E i \in 1..Len(idlist) : TitleIsNone(result[idlist[i]])
           THEN /\ Raise("pubmed_search", "AttributeError")
                /\ UNCHANGED <<items, ret, returned>>
           ELSE /\ ret' = PubmedItems(idlist, result)
                /\ items' = items \o PubmedItems(idlist, result)
                /\ returned' = returned \cup {"pubmed_search"}
                /\ pc' = "clinicaltrials_search"
                /\ UNCHANGED err
    /\ UNCHANGED <<merged, studies, cutoff, report, printed>>

pubmed_search ==
    \/ PubmedEsearchFails
    \/ PubmedNoIds
    \/ PubmedEsummaryFails
    \/ PubmedSummarized

\* --------------------------------------------------- clinicaltrials_search
\* lines 85-87: the request fails; there is no second request
CtRequestFails ==
    /\ pc = "clinicaltrials_search"
    /\ \E status \in StatusCodes \cup {0}, jsonOk \in BOOLEAN :
        /\ RequestError(status, jsonOk) # ""
        /\ calls' = Append(calls, Call("studies", status))
        /\ Raise("clinicaltrials_search", RequestError(status, jsonOk))
    /\ data' = NoData
    /\ UNCHANGED <<items, merged, pmids, studies, cutoff, ret, report, returned, printed>>

\* lines 85-124: the request succeeds, the studies are filtered and mapped
CtReturns ==
    /\ pc = "clinicaltrials_search"
    /\ \E js \in SeqsUpTo(StudySet, MaxStudies), now \in NowSet :
        /\ studies' = js
        /\ cutoff' = now - days_back * TicksPerDay
        /\ ret' = CtItems(js, now - days_back * TicksPerDay)
        /\ items' = items \o CtItems(js, now - days_back * TicksPerDay)
    /\ calls' = Append(calls, Call("studies", 200))
    /\ returned' = returned \cup {"clinicaltrials_search"}
    /\ data' = NoData
    /\ pc' = "dedupe"
    /\ UNCHANGED <<merged, pmids, report, err, printed>>

clinicaltrials_search ==
    \/ CtRequestFails
    \/ CtReturns

\* ------------------------------------------------------- main, lines 194-198
DedupeStep ==
    /\ pc = "dedupe"
    /\ merged' = items
    /\ items' = Dedupe(items)
    /\ studies' = << >>
    /\ cutoff' = 0
    /\ ret' = << >>
    /\ pc' = "generate_report"
    /\ UNCHANGED <<pmids, data, report, calls, returned, err, printed>>

\* --------------------------------------------------------- generate_report
\* variant of generate_report: a failed request yields an empty report
generate_report_Swallows ==
    /\ pc = "generate_report"
    /\ \/ /\ Raise("generate_report", "OpenAIError")
          /\ UNCHANGED <<report, calls, returned>>
       \/ /\ calls' = Append(calls, Call("responses.create", 500))
          /\ report' = << >>
          /\ pc' = "send_email"
          /\ UNCHANGED <<err, returned>>
       \/ /\ calls' = Append(calls, Call("responses.create", 200))
          /\ report' = <<"report">>
          /\ returned' = returned \cup {"generate_report"}
          /\ pc' = "send_email"
          /\ UNCHANGED err
    /\ merged' = << >>
    /\ UNCHANGED <<items, pmids, data, studies, cutoff, ret, printed>>

\* line 154 raises when the client has no API key; line 157 is the request
generate_report ==
    /\ pc = "generate_report"
    /\ \/ /\ Raise("generate_report", "OpenAIError")
          /\ UNCHANGED <<report, calls, returned>>
       \/ /\ calls' = Append(calls, Call("responses.create", 500))
          /\ Raise("generate_report", "APIError")
          /\ UNCHANGED <<report, returned>>
       \/ /\ calls' = Append(calls, Call("responses.create", 200))
          /\ report' = <<"report">>
          /\ returned' = returned \cup {"generate_report"}
          /\ pc' = "send_email"
          /\ UNCHANGED err
    /\ merged' = << >>
    /\ UNCHANGED <<items, pmids, data, studies, cutoff, ret, printed>>

\* -------------------------------------------------------------- send_email
\* lines 167-172 raise KeyError; 179-181 raise before the message is handed
\* over; line 182 hands it over (250) or is refused (550); leaving the with
\* block can still raise after the message was accepted.
send_email ==
    /\ pc = "send_email"
    /\ \/ /\ \E exc \in {"KeyError", "SMTPAuthenticationError"} :
                Raise("send_email", exc)
          /\ UNCHANGED <<calls, returned>>
       \/ /\ calls' = Append(calls, Call("sendmail", 550))
          /\ Raise("send_email", "SMTPRecipientsRefused")
          /\ UNCHANGED returned
       \/ /\ calls' = Append(calls, Call("sendmail", 250))
          /\ Raise("send_email", "SMTPResponseException")
          /\ UNCHANGED returned
       \/ /\ calls' = Append(calls, Call("sendmail", 250))
          /\ returned' = returned \cup {"send_email"}
          /\ pc' = "print"
          /\ UNCHANGED err
    /\ UNCHANGED <<items, merged, pmids, data, studies, cutoff, ret, report, printed>>

\* ------------------------------------------------------------ main, line 204
PrintOk ==
    /\ pc = "print"
    /\ printed' = TRUE
    /\ pc' = "done"
    /\ UNCHANGED <<items, merged, pmids, data, studies, cutoff, ret, report, calls,
                   returned, err>>

Next ==
    \/ pubmed_search
    \/ clinicaltrials_search
    \/ DedupeStep
    \/ generate_report
    \/ send_email
    \/ PrintOk

Spec == Init /\ [][Next]_vars

\* the mail messages handed over to the SMTP server
MailSent == Cardinality({i \in 1..Len(calls) : calls[i] = Call("sendmail", 250)})

CallsTo(to) == {i \in 1..Len(calls) : calls[i].to = to}

NoDupIds(its) == \A i, j \in 1..Len(its) : i # j => its[i].id # its[j].id

Ids(its) == {its[i].id : i \in 1..Len(its)}

\* the last index of its that carries the id
LastIndex(its, id) == CHOOSE i \in 1..Len(its) :
    its[i].id = id /\ \A j \in 1..Len(its) : its[j].id = id => j <= i

\* the last-update text the registry sent for a study, if it sent one
HasDateText(s) == StatusField(s, "lastUpdatePostDate").k = "str"
DateText(s) == StatusField(s, "lastUpdatePostDate").s

\* a study whose last-update date is parseable as ISO-8601
Parseable(s) == HasDateText(s) /\ DateText(s) # << >> /\ fromisoformat(DateText(s)).ok

Homepage == <<"https://clinicaltrials.gov/">>

\* a literature title that is missing or holds nothing but whitespace
Blank(t) == t.k = "missing" \/ (t.k = "str" /\ \A i \in 1..Len(t.s) : t.s[i] = " ")

Adapters == {"pubmed_search", "clinicaltrials_search"}

\* ------------------------------------------------------------------ claims

\* C1: the mail is handed over at most once, and only after both adapters and
\* the summarizer have returned without error; once an exception has left
\* main() the confirmation line is never printed, and an exception raised by
\* an adapter or by the summarizer means no sendmail request was issued.
C1_MailAtomic ==
    /\ MailSent <= 1
    /\ Cardinality(CallsTo("sendmail")) <= 1
    /\ CallsTo("sendmail") # {} =>
          Adapters \cup {"generate_report"} \subseteq returned
    /\ (err # NoErr) <=> (pc = "failed")
    /\ err # NoErr => ~printed
    /\ err.in \in Adapters \cup {"generate_report"} => CallsTo("sendmail") = {}
    /\ printed => MailSent = 1 /\ err = NoErr

\* a run that printed the confirmation line after one accepted message
C1_Witness ==
    /\ printed
    /\ MailSent = 1
    /\ returned = Adapters \cup {"generate_report", "send_email"}

\* a run whose mail transport raised after the summarizer had returned
C1_FailureSeen ==
    /\ pc = "failed"
    /\ err.in = "send_email"
    /\ "generate_report" \in returned

\* C2: once clinicaltrials_search has been left after a primary request that
\* was answered with a 4xx status, exactly one fallback request was issued.
C2_FallbackOn400 ==
    \A i \in CallsTo("studies") :
        (i = Len(calls) \/ calls[i + 1].to # "studies")
        /\ calls[i].status >= 400 /\ calls[i].status < 500
        /\ (\A j \in CallsTo("studies") : i <= j)
        => Cardinality(CallsTo("studies")) = 2

\* C3: after the de-duplication step, every id of the input list has exactly
\* one record in the output and it is the last record of the input with that
\* id; the output is no longer than the input, and as long exactly when the
\* ids of the input are pairwise distinct.
C3_LastWriteWins ==
    pc = "generate_report" =>
        /\ \A id \in Ids(merged) :
              /\ Cardinality({i \in 1..Len(items) : items[i].id = id}) = 1
              /\ \E i \in 1..Len(items) : items[i] = merged[LastIndex(merged, id)]
        /\ Ids(items) = Ids(merged)
        /\ Len(items) <= Len(merged)
        /\ (Len(items) = Len(merged)) <=> NoDupIds(merged)

\* an input in which two different records share an id
C3_Witness ==
    /\ pc = "generate_report"
    /\ \E i, j \in 1..Len(merged) :
          i < j /\ merged[i].id = merged[j].id /\ merged[i] # merged[j]
    /\ Len(items) < Len(merged)

\* C4: a study whose last-update date is absent, empty or not parseable is in
\* the list clinicaltrials_search returns, whatever the cutoff.
C4_FailOpen ==
    pc = "dedupe" =>
        /\ err = NoErr
        /\ \A i \in 1..Len(studies) :
              ~Parseable(studies[i]) => CtRecord(studies[i]) \in Range(ret)

\* a returned list that holds a study with an unparseable date, one with an
\* empty date and one without the status section
C4_Witness ==
    /\ pc = "dedupe"
    /\ \E i \in 1..Len(studies) :
          /\ HasDateText(studies[i])
          /\ DateText(studies[i]) = <<"not-a-date">>
          /\ CtRecord(studies[i]) \in Range(ret)
    /\ \E i \in 1..Len(studies) :
          \/ HasDateText(studies[i]) /\ DateText(studies[i]) = << >>
          \/ ~HasDateText(studies[i])

\* C5: a study whose last-update date is parseable is in the returned list if
\* and only if the parsed date, converted to UTC, is at or after the cutoff.
C5_KeepIffRecent ==
    pc = "dedupe" =>
        \A i \in 1..Len(studies) :
            Parseable(studies[i]) =>
                (CtRecord(studies[i]) \in Range(ret)
                 <=> UtcNormalized(fromisoformat(DateText(studies[i]))) >= cutoff)

\* C6: every record in items once the adapters have returned, and so every
\* record handed to the summarizer, has a non-empty title and url; a blank
\* literature title is replaced by "PubMed record <pmid>", and a trial without
\* NCT identifier links to the registry homepage.
C6_TitleAndUrl ==
    /\ \A i \in 1..Len(items) : items[i].title # << >> /\ items[i].url # << >>
    /\ pc = "clinicaltrials_search" =>
          \A i \in 1..Len(pmids) :
              Blank(data[pmids[i]].title) =>
                  ret[i].title = <<"PubMed record ", pmids[i]>>
    /\ pc = "dedupe" =>
          \A i \in 1..Len(studies) :
              IdentField(studies[i], "nctId").k # "str" =>
                  \A j \in 1..Len(ret) :
                      ret[j].id = CtRecord(studies[i]).id => ret[j].url = Homepage

\* the summarizer was called with a placeholder title and a homepage link
C6_Witness ==
    /\ CallsTo("responses.create") # {}
    /\ \E i \in 1..Len(items) : items[i].title = <<"PubMed record ", "1">>
    /\ \E i \in 1..Len(items) : items[i].url = Homepage

\* C7: when ESearch succeeds with an empty idlist, pubmed_search returns the
\* empty list without an ESummary request and without an exception, and the
\* run goes on to the trial-registry request.
C7_NoIdsNoSummary ==
    pc # "pubmed_search" /\ pmids = << >> /\ err.in # "pubmed_search" =>
        /\ calls[1] = Call("esearch", 200)
        /\ CallsTo("esummary") = {}
        /\ "pubmed_search" \in returned
        /\ \A i \in 1..Len(items) : items[i].source # "PubMed"
        /\ pc = "clinicaltrials_search" => ret = << >> /\ err = NoErr
        /\ pc # "clinicaltrials_search" => Len(calls) >= 2 /\ calls[2].to = "studies"

\* the trial-registry adapter returned after an empty literature search
C7_Witness ==
    /\ pc = "dedupe"
    /\ pmids = << >>
    /\ calls = <<Call("esearch", 200), Call("studies", 200)>>

\* C8: the list an adapter call returns holds no two records with one id.
C8_NoDupIds ==
    pc \in {"clinicaltrials_search", "dedupe"} => NoDupIds(ret)

\* C9: de-duplicating the de-duplicated list changes nothing.
C9_Idempotent ==
    pc = "generate_report" => Dedupe(items) = items

\* a de-duplication that dropped a record and left at least two
C9_Witness ==
    /\ pc = "generate_report"
    /\ Len(items) >= 2
    /\ Len(items) < Len(merged)

\* the position of a request in the run
Rank(to) ==
    CASE to = "esearch" -> 1
      [] to = "esummary" -> 2
      [] to = "studies" -> 3
      [] to = "responses.create" -> 4
      [] to = "sendmail" -> 5

\* C10: the requests are issued in the order ESearch, ESummary, studies,
\* summarizer, mail, each at most once (a second studies request only right
\* after one answered 4xx); the studies request follows the return of
\* pubmed_search, the summarizer request follows the return of both adapters
\* and the de-duplication, the mail follows the return of the summarizer, and
\* nothing is requested after a request has failed.
C10_Sequential ==
    /\ \A i, j \in 1..Len(calls) :
          i < j =>
              \/ Rank(calls[i].to) < Rank(calls[j].to)
              \/ /\ calls[i].to = "studies" /\ calls[j].to = "studies"
                 /\ j = i + 1
                 /\ calls[i].status >= 400 /\ calls[i].status < 500
                 /\ Cardinality(CallsTo("studies")) = 2
    /\ CallsTo("esummary") # {} => CallsTo("esearch") # {}
    /\ CallsTo("studies") # {} => "pubmed_search" \in returned
    /\ CallsTo("responses.create") # {} =>
          Adapters \subseteq returned /\ NoDupIds(items)
    /\ CallsTo("sendmail") # {} => "generate_report" \in returned
    /\ \A i \in 1..Len(calls) :
          i < Len(calls) /\ calls[i + 1].to # calls[i].to => calls[i].status = 200

\* a complete run: all five requests, in order
C10_Witness ==
    /\ pc = "done"
    /\ Len(calls) = 5
    /\ \A i \in 1..5 : Rank(calls[i].to) = i

====
